---- MODULE Spec2Model ----
(***************************************************************************)
(* State-machine model of the profile store, session controller, merge     *)
(* engine and evidence intake of the profiling single-page application     *)
(* (App component, InputConsole component, analysis service).              *)
(*                                                                         *)
(* A JavaScript object used as a dictionary is a record [keys, at]: keys   *)
(* is Object.keys order (insertion order), at maps each key to its value.  *)
(* A string id is an integer; the null id is 0.  crypto.randomUUID() is a  *)
(* counter, Date.now() is a clock that advances with every handler that    *)
(* reads it.  The number of user operations in a session is capped by the *)
(* bound below; what the environment does (promises settling, a capture   *)
(* stream ending) is not.                                                  *)
(***************************************************************************)
EXTENDS Integers, Sequences, FiniteSets, TLC

\* ------------------------------------------------------------------ bounds
\* the number of user operations (clicks, inputs, file selections) explored
MaxOps == 3

\* --------------------------------------------------------------- constants
NullId == 0
NullError == ""
AnalysisFailedMessage == "Analysis failed. If uploading large videos, ensure they are under the API size limit or try shorter clips."
PendingSummary == "Profile pending. Upload evidence (text screenshots, photos, videos, audio) to begin the psychological profiling process."

\* ------------------------------------------------------ JavaScript objects
Range(s) == {s[i] : i \in 1..Len(s)}

EmptyObj == [keys |-> <<>>, at |-> <<>>]

ObjectKeys(o) == o.keys

HasKey(o, k) == k \in Range(o.keys)

\* { [k]: v }
SingleObj(k, v) == [keys |-> <<k>>, at |-> [x \in {k} |-> v]]

\* { ...o, [k]: v } : an existing key keeps its position, a new key goes last
PutKey(o, k, v) ==
  [keys |-> IF HasKey(o, k) THEN o.keys ELSE Append(o.keys, k),
   at |-> [x \in Range(o.keys) \cup {k} |-> IF x = k THEN v ELSE o.at[x]]]

\* delete o[k]
DeleteKey(o, k) ==
  [keys |-> SelectSeq(o.keys, LAMBDA x : x # k),
   at |-> [x \in Range(o.keys) \ {k} |-> o.at[x]]]

\* { ...a, ...b } on records: the fields of b override those of a
Spread(a, b) ==
  [f \in DOMAIN a \cup DOMAIN b |-> IF f \in DOMAIN b THEN b[f] ELSE a[f]]

\* truthiness of an optional string property o.f (absent and "" are falsy)
Truthy(o, f) == f \in DOMAIN o /\ o[f] # ""

\* ------------------------------------------------------------------- JSON
\* A JSON text is kept as its syntax tree: string and number literals,
\* arrays, and objects as the sequence of their members <<name, value>>.
\* Numbers are written in decimal digits.  Ids stand for UUID strings.
JString(s) == [t |-> "string", s |-> s]

JNumber(n) == [t |-> "number", s |-> ToString(n)]

JArray(items) == [t |-> "array", items |-> items]

JObject(members) == [t |-> "object", members |-> members]

\* a text JSON.parse rejects
CorruptText == [t |-> "invalid"]

\* the properties of order that record o has; a property that is absent
\* (undefined) is left out, as JSON.stringify does
Present(o, order) == SelectSeq(order, LAMBDA f : f \in DOMAIN o)

JStrings(list) == JArray([i \in 1..Len(list) |-> JString(list[i])])

BigFiveOrder ==
  <<"openness", "conscientiousness", "extraversion", "agreeableness",
    "neuroticism">>

HistoryItemOrder == <<"id", "timestamp", "type", "summary", "fileName">>

ProfileOrder ==
  <<"id", "firstName", "lastName", "dateOfBirth", "lastUpdated", "bigFive",
    "mbti", "enneagram", "attachmentStyle", "summary", "keyTraits",
    "bodyLanguageNotes", "toneVoiceNotes", "history", "name">>

JBigFive(scores) ==
  LET names == Present(scores, BigFiveOrder) IN
  JObject([i \in 1..Len(names) |-> <<names[i], JNumber(scores[names[i]])>>])

JHistoryField(f, v) == IF f = "timestamp" THEN JNumber(v) ELSE JString(v)

\* variant: a history entry is written without its optional fileName
JHistoryItem_NoFileName(h) ==
  LET names == Present(h, SubSeq(HistoryItemOrder, 1, 4)) IN
  JObject([i \in 1..Len(names) |->
             <<names[i], JHistoryField(names[i], h[names[i]])>>])

JHistoryItem(h) ==
  LET names == Present(h, HistoryItemOrder) IN
  JObject([i \in 1..Len(names) |->
             <<names[i], JHistoryField(names[i], h[names[i]])>>])

JProfileField(f, v) ==
  CASE f = "lastUpdated" -> JNumber(v)
    [] f = "bigFive" -> JBigFive(v)
    [] f \in {"keyTraits", "bodyLanguageNotes", "toneVoiceNotes"} ->
         JStrings(v)
    [] f = "history" -> JArray([i \in 1..Len(v) |-> JHistoryItem(v[i])])
    [] OTHER -> JString(v)

\* JSON.stringify of a profile (or a legacy record)
JSONstringifyProfile(p) ==
  LET names == Present(p, ProfileOrder) IN
  JObject([i \in 1..Len(names) |->
             <<names[i], JProfileField(names[i], p[names[i]])>>])

\* JSON.stringify of the profile dictionary
JSONstringify(v) ==
  JObject([i \in 1..Len(v.keys) |->
             <<v.keys[i], JSONstringifyProfile(v.at[v.keys[i]])>>])

JSONparseThrows(text) == text.t = "invalid"

DigitValue(c) == CHOOSE d \in 0..9 : ToString(d) = c

\* the number a decimal literal denotes
RECURSIVE ParseNat(_)
ParseNat(s) ==
  IF Len(s) = 0 THEN 0
  ELSE ParseNat(SubSeq(s, 1, Len(s) - 1)) * 10
         + DigitValue(SubSeq(s, Len(s), Len(s)))

\* the names of the members of an object, and the value of member name
MemberNames(members) == {members[i][1] : i \in 1..Len(members)}

MemberValue(members, name) ==
  members[CHOOSE i \in 1..Len(members) : members[i][1] = name][2]

\* JSON.parse of a text that is not a dictionary: objects become records
RECURSIVE JSONparseValue(_)
JSONparseValue(text) ==
  CASE text.t = "string" -> text.s
    [] text.t = "number" -> ParseNat(text.s)
    [] text.t = "array" ->
         [i \in 1..Len(text.items) |-> JSONparseValue(text.items[i])]
    [] text.t = "object" ->
         [n \in MemberNames(text.members) |->
            JSONparseValue(MemberValue(text.members, n))]

\* JSON.parse of the text of a profile dictionary
JSONparse(text) ==
  [keys |-> [i \in 1..Len(text.members) |-> text.members[i][1]],
   at |-> [k \in MemberNames(text.members) |->
             JSONparseValue(MemberValue(text.members, k))]]

\* localStorage.getItem: <<>> is null (key absent), <<text>> a stored text
NoItem == <<>>

Item(text) == <<text>>

\* A text in localStorage is kept by what it was written from: the
\* dictionary or the record given to JSON.stringify, or nothing for a text
\* that is no JSON.  TextOf is the text itself, read when the key is loaded.
MapText(v) == [kind |-> "map", of |-> v]

RecordText(v) == [kind |-> "record", of |-> v]

Garbage == [kind |-> "garbage", of |-> <<>>]

TextOf(stored) ==
  CASE stored.kind = "map" -> JSONstringify(stored.of)
    [] stored.kind = "record" -> JSONstringifyProfile(stored.of)
    [] stored.kind = "garbage" -> CorruptText

\* ---------------------------------------------------------------- strings
\* index of the first " " of s at or after position i, 0 when there is none
RECURSIVE IndexOfSpace(_, _)
IndexOfSpace(s, i) ==
  IF i > Len(s) THEN 0
  ELSE IF SubSeq(s, i, i) = " " THEN i
  ELSE IndexOfSpace(s, i + 1)

\* s.split(' ')[0]
SplitFirst(s) ==
  LET i == IndexOfSpace(s, 1) IN IF i = 0 THEN s ELSE SubSeq(s, 1, i - 1)

\* s.split(' ').slice(1).join(' ')
SplitRest(s) ==
  LET i == IndexOfSpace(s, 1) IN IF i = 0 THEN "" ELSE SubSeq(s, i + 1, Len(s))

\* --------------------------------------------------------------- profiles
DefaultBigFive ==
  [openness |-> 50, conscientiousness |-> 50, extraversion |-> 50,
   agreeableness |-> 50, neuroticism |-> 50]

generateNewProfile(uuid, t) ==
  [id |-> uuid,
   firstName |-> "New",
   lastName |-> "Subject",
   dateOfBirth |-> "",
   lastUpdated |-> t,
   bigFive |-> DefaultBigFive,
   mbti |-> "Unknown",
   enneagram |-> "Unknown",
   attachmentStyle |-> "Unknown",
   summary |-> PendingSummary,
   keyTraits |-> <<>>,
   bodyLanguageNotes |-> <<>>,
   toneVoiceNotes |-> <<>>,
   history |-> <<>>]

\* ------------------------------------------------- persisted start states
\* What localStorage can hold when the application is opened.  Ids written by
\* earlier sessions are the first values of the id counter; uuids is how many
\* of them those sessions handed out.
StoredAlex ==
  [id |-> 1,
   firstName |-> "Alex",
   lastName |-> "Smith",
   dateOfBirth |-> "1990-01-01",
   lastUpdated |-> 0,
   bigFive |-> [openness |-> 61, conscientiousness |-> 45, extraversion |-> 70,
                agreeableness |-> 52, neuroticism |-> 38],
   mbti |-> "ENTP",
   enneagram |-> "7w8",
   attachmentStyle |-> "Secure",
   summary |-> "Outgoing and curious.",
   keyTraits |-> <<"curious">>,
   bodyLanguageNotes |-> <<"Open posture.">>,
   toneVoiceNotes |-> <<"Even, relaxed.">>,
   history |-> <<>>]

StoredBlank == generateNewProfile(2, 0)

StoredOne == SingleObj(1, StoredAlex)

StoredTwo == PutKey(StoredOne, 2, StoredBlank)

\* an id that is no key of any stored map
StaleId == 199

LegacyHistoryItem ==
  [id |-> 201, timestamp |-> 0, type |-> "IMAGE",
   summary |-> "First impression from a photo.", fileName |-> "portrait.png"]

LegacyJane ==
  [id |-> 200,
   name |-> "Jane Doe",
   lastUpdated |-> 0,
   summary |-> "Reserved, careful with words.",
   keyTraits |-> <<"reserved">>,
   history |-> <<LegacyHistoryItem>>]

LegacyUnnamed == [summary |-> "Unknown subject.", dateOfBirth |-> "1985-05-05"]

\* a legacy record whose name ends with a space
LegacyMononym == [name |-> "Cher ", summary |-> "Goes by one name."]

Persisted(db, active, legacy, uuids) ==
  [db |-> db, active |-> active, legacy |-> legacy, uuids |-> uuids]

PersistedStates ==
  { Persisted(NoItem, NullId, NoItem, 0),
    Persisted(Item(Garbage), StaleId, NoItem, 0),
    Persisted(Item(MapText(EmptyObj)), NullId, NoItem, 0),
    Persisted(Item(MapText(EmptyObj)), StaleId, NoItem, 0),
    Persisted(Item(MapText(StoredOne)), 1, NoItem, 1),
    Persisted(Item(MapText(StoredTwo)), 2, NoItem, 2),
    Persisted(Item(MapText(StoredTwo)), StaleId, NoItem, 2),
    Persisted(Item(MapText(StoredTwo)), NullId, NoItem, 2),
    Persisted(NoItem, NullId, Item(RecordText(LegacyJane)), 0),
    Persisted(NoItem, StaleId, Item(RecordText(LegacyUnnamed)), 0),
    Persisted(NoItem, NullId, Item(Garbage), 0),
    Persisted(NoItem, NullId, Item(RecordText(LegacyMononym)), 0),
    Persisted(Item(Garbage), 1, Item(RecordText(LegacyJane)), 1) }

\* ------------------------------------------------------------------ state
VARIABLES
  ls_db,            \* localStorage 'psycho_profiles_db'
  ls_active,        \* localStorage 'psycho_active_id' (NullId: absent)
  ls_legacy,        \* localStorage 'psycho_profile_v3'
  mounted,          \* the initialization effect (loadData) has run
  profiles,         \* App state: dictionary id -> profile
  activeProfileId,  \* App state
  isAnalyzing,      \* App state
  error,            \* App state
  inflight,         \* handleAnalysis calls suspended at an await
  opCount,          \* number of user operations performed so far
  recording,        \* InputConsole state
  recorder,         \* mediaRecorderRef.current with its onstop closure
  uuidCount,        \* number of crypto.randomUUID() values handed out so far
  now,              \* Date.now()
  okCalls,          \* per stored profile: analysis calls that succeeded for it
  histAtStart,      \* per stored profile: history length when created/loaded
  last,             \* the operation that produced this state
  download,         \* the file the last step handed to the browser, if any
  description       \* InputConsole state: the text of the context box

vars ==
  <<ls_db, ls_active, ls_legacy, mounted, profiles, activeProfileId,
    isAnalyzing, error, inflight, opCount, recording, recorder,
    uuidCount, now, okCalls, histAtStart, last, download, description>>

NoRecorder ==
  [state |-> "none", kind |-> "none", activeProfileId |-> NullId,
   activeProfile |-> <<>>, description |-> ""]

NoResult == 0

\* no file was downloaded
NoDownload == [name |-> "", type |-> "", content |-> <<>>]

\* the record kept of the operation that last changed the store or the
\* active id, or completed an analysis call; for a load, id is the persisted
\* active id it found; for a merge, historyAtCall is the history length the
\* target had when the merged call started
Op(name, id, res) == [op |-> name, id |-> id, res |-> res, historyAtCall |-> 0]

Init ==
  /\ \E s \in PersistedStates :
       /\ ls_db = s.db
       /\ ls_active = s.active
       /\ ls_legacy = s.legacy
       /\ uuidCount = s.uuids
  /\ mounted = FALSE
  /\ profiles = EmptyObj
  /\ activeProfileId = NullId
  /\ isAnalyzing = FALSE
  /\ error = NullError
  /\ inflight = <<>>
  /\ opCount = 0
  /\ recording = FALSE
  /\ recorder = NoRecorder
  /\ now = 0
  /\ okCalls = <<>>
  /\ histAtStart = <<>>
  /\ last = Op("init", NullId, NoResult)
  /\ download = NoDownload
  /\ description = ""

\* one more user operation, while the session's budget lasts
UserOp ==
  /\ opCount < MaxOps
  /\ opCount' = opCount + 1

\* --------------------------------------------------- persistence effects
\* variant: the map is written only while nothing is stored yet
PersistProfiles_Once(newProfiles, oldItem) ==
  IF Len(ObjectKeys(newProfiles)) > 0 /\ oldItem = NoItem
  THEN Item(MapText(newProfiles))
  ELSE oldItem

\* useEffect on [profiles]: runs after a render in which profiles changed
PersistProfiles(newProfiles, oldItem) ==
  IF Len(ObjectKeys(newProfiles)) > 0
  THEN Item(MapText(newProfiles))
  ELSE oldItem

\* variant: the active id is written only while none is stored yet
PersistActiveId_Once(newActiveId, oldItem) ==
  IF newActiveId # NullId /\ oldItem = NullId THEN newActiveId ELSE oldItem

\* useEffect on [activeProfileId]
PersistActiveId(newActiveId, oldItem) ==
  IF newActiveId # NullId THEN newActiveId ELSE oldItem

\* activeProfile (useMemo): the stored profile, else a throw-away default
activeProfile ==
  IF activeProfileId # NullId /\ HasKey(profiles, activeProfileId)
  THEN profiles.at[activeProfileId]
  ELSE generateNewProfile(NullId, now)

\* history length of every stored profile that has a history list
HistoryLengths(o) ==
  [k \in Range(o.keys) |->
     IF "history" \in DOMAIN o.at[k] THEN Len(o.at[k].history) ELSE 0]

ZeroCalls(o) == [k \in Range(o.keys) |-> 0]

\* ------------------------------------------------------------------ load
\* variant: the legacy record is spread last, over the new id and the names
MigratedProfile_LegacyLast(parsedLegacy, newId, defaults) ==
  Spread(Spread(defaults,
                [id |-> newId,
                 firstName |->
                   IF "name" \in DOMAIN parsedLegacy
                      /\ SplitFirst(parsedLegacy.name) # ""
                   THEN SplitFirst(parsedLegacy.name)
                   ELSE "Subject",
                 lastName |->
                   IF "name" \in DOMAIN parsedLegacy
                      /\ SplitRest(parsedLegacy.name) # ""
                   THEN SplitRest(parsedLegacy.name)
                   ELSE "001"]),
         parsedLegacy)

\* the profile built from a parsed legacy record
MigratedProfile(parsedLegacy, newId, defaults) ==
  Spread(Spread(defaults, parsedLegacy),
         [id |-> newId,
          firstName |->
            IF Truthy(parsedLegacy, "firstName") THEN parsedLegacy.firstName
            ELSE IF "name" \in DOMAIN parsedLegacy
                    /\ SplitFirst(parsedLegacy.name) # ""
                 THEN SplitFirst(parsedLegacy.name)
                 ELSE "Subject",
          lastName |->
            IF Truthy(parsedLegacy, "lastName") THEN parsedLegacy.lastName
            ELSE IF "name" \in DOMAIN parsedLegacy
                    /\ SplitRest(parsedLegacy.name) # ""
                 THEN SplitRest(parsedLegacy.name)
                 ELSE "001"])

\* What a load leaves: the dictionary and the active id it sets, the legacy
\* item it leaves in localStorage, and the ids and clock ticks it has used.
Loaded(newProfiles, newActiveId, legacyItem, uuids, t) ==
  [profiles |-> newProfiles, activeProfileId |-> newActiveId,
   legacy |-> legacyItem, uuidCount |-> uuids, now |-> t]

\* variant: the fallback resets to an empty store
StartFresh_Empty(legacyItem, uuids, t) ==
  Loaded(EmptyObj, NullId, legacyItem, uuids, t)

\* setProfiles({[newP.id]: newP}); setActiveProfileId(newP.id) with a fresh
\* default profile
StartFresh(legacyItem, uuids, t) ==
  LET newP == generateNewProfile(uuids + 1, t) IN
  Loaded(SingleObj(newP.id, newP), newP.id, legacyItem, uuids + 1, t + 1)

\* variant: the fallback is the last key of the parsed dictionary
RestoredActiveId_LastKey(parsedProfiles, savedActiveId) ==
  IF savedActiveId # NullId /\ HasKey(parsedProfiles, savedActiveId)
  THEN savedActiveId
  ELSE IF Len(ObjectKeys(parsedProfiles)) > 0
       THEN ObjectKeys(parsedProfiles)[Len(ObjectKeys(parsedProfiles))]
       ELSE NullId

\* "Restore active session or default to first available"; when neither is
\* there, setActiveProfileId is not called and the id keeps its initial null
RestoredActiveId(parsedProfiles, savedActiveId) ==
  IF savedActiveId # NullId /\ HasKey(parsedProfiles, savedActiveId)
  THEN savedActiveId
  ELSE IF Len(ObjectKeys(parsedProfiles)) > 0
       THEN ObjectKeys(parsedProfiles)[1]
       ELSE NullId

\* "Migration Path: Check for legacy single profile"
MigrationPath(legacyProfile, uuids, t) ==
  IF legacyProfile # NoItem
  THEN IF JSONparseThrows(TextOf(legacyProfile[1]))
       THEN StartFresh(legacyProfile, uuids, t)
       ELSE LET parsedLegacy == JSONparseValue(TextOf(legacyProfile[1]))
                newId == uuids + 1
                migratedProfile ==
                  MigratedProfile(parsedLegacy, newId,
                                  generateNewProfile(uuids + 2, t))
            IN Loaded(SingleObj(newId, migratedProfile), newId, NoItem,
                      uuids + 2, t + 1)
  ELSE StartFresh(legacyProfile, uuids, t)

\* the state updates loadData makes for the three localStorage items it
\* finds; the legacy item is looked at only on the migration path
LoadedStore(savedProfiles, savedActiveId, legacyProfile, uuids, t) ==
  IF savedProfiles # NoItem
  THEN LET text == TextOf(savedProfiles[1]) IN
       IF JSONparseThrows(text)
       THEN StartFresh(legacyProfile, uuids, t)
       ELSE LET parsedProfiles == JSONparse(text) IN
            Loaded(parsedProfiles,
                   RestoredActiveId(parsedProfiles, savedActiveId),
                   legacyProfile, uuids, t)
  ELSE MigrationPath(legacyProfile, uuids, t)

loadData ==
  /\ ~mounted
  /\ mounted' = TRUE
  /\ LET loaded == LoadedStore(ls_db, ls_active, ls_legacy, uuidCount, now) IN
     /\ profiles' = loaded.profiles
     /\ activeProfileId' = loaded.activeProfileId
     /\ ls_legacy' = loaded.legacy
     /\ uuidCount' = loaded.uuidCount
     /\ now' = loaded.now
  /\ ls_db' = PersistProfiles(profiles', ls_db)
  /\ ls_active' = PersistActiveId(activeProfileId', ls_active)
  /\ okCalls' = ZeroCalls(profiles')
  /\ histAtStart' = HistoryLengths(profiles')
  /\ last' = Op("load", ls_active, NoResult)
  /\ UNCHANGED <<isAnalyzing, error, inflight, opCount, recording, recorder>>
  /\ download' = NoDownload
  /\ UNCHANGED description

\* ---------------------------------------------------- session controller
\* variant: the new profile replaces the dictionary (...prev forgotten)
handleCreateProfile_Replace ==
  /\ mounted
  /\ UserOp
  /\ LET newProfile == generateNewProfile(uuidCount + 1, now) IN
     /\ profiles' = SingleObj(newProfile.id, newProfile)
     /\ activeProfileId' = newProfile.id
     /\ okCalls' = [k \in {newProfile.id} |-> 0]
     /\ histAtStart' = [k \in {newProfile.id} |-> 0]
     /\ last' = Op("create", NullId, NoResult)
  /\ uuidCount' = uuidCount + 1
  /\ now' = now + 1
  /\ ls_db' = PersistProfiles(profiles', ls_db)
  /\ ls_active' = PersistActiveId(activeProfileId', ls_active)
  /\ UNCHANGED <<ls_legacy, mounted, isAnalyzing, error, inflight, recording,
                 recorder>>
  /\ download' = NoDownload
  /\ UNCHANGED description

handleCreateProfile ==
  /\ mounted
  /\ UserOp
  /\ LET newProfile == generateNewProfile(uuidCount + 1, now) IN
     /\ profiles' = PutKey(profiles, newProfile.id, newProfile)
     /\ activeProfileId' = newProfile.id
     /\ okCalls' = [k \in DOMAIN okCalls \cup {newProfile.id} |->
                      IF k = newProfile.id THEN 0 ELSE okCalls[k]]
     /\ histAtStart' = [k \in DOMAIN histAtStart \cup {newProfile.id} |->
                      IF k = newProfile.id THEN 0 ELSE histAtStart[k]]
     /\ last' = Op("create", NullId, NoResult)
  /\ uuidCount' = uuidCount + 1
  /\ now' = now + 1
  /\ ls_db' = PersistProfiles(profiles', ls_db)
  /\ ls_active' = PersistActiveId(activeProfileId', ls_active)
  /\ UNCHANGED <<ls_legacy, mounted, isAnalyzing, error, inflight, recording,
                 recorder>>
  /\ download' = NoDownload
  /\ UNCHANGED description

\* variant: an id that is no key of the store is refused
handleSwitchProfile_Validated(id) ==
  /\ mounted
  /\ UserOp
  /\ activeProfileId' = IF HasKey(profiles, id) THEN id ELSE activeProfileId
  /\ ls_active' = PersistActiveId(activeProfileId', ls_active)
  /\ last' = Op("switch", id, NoResult)
  /\ UNCHANGED <<ls_db, ls_legacy, mounted, profiles, isAnalyzing, error,
                 inflight, recording, recorder, uuidCount, now,
                 okCalls, histAtStart>>
  /\ download' = NoDownload
  /\ UNCHANGED description

handleSwitchProfile(id) ==
  /\ mounted
  /\ UserOp
  /\ activeProfileId' = id
  /\ ls_active' = PersistActiveId(activeProfileId', ls_active)
  /\ last' = Op("switch", id, NoResult)
  /\ UNCHANGED <<ls_db, ls_legacy, mounted, profiles, isAnalyzing, error,
                 inflight, recording, recorder, uuidCount, now,
                 okCalls, histAtStart>>
  /\ download' = NoDownload
  /\ UNCHANGED description

\* the profile menu offers one button per stored profile p, calling
\* handleSwitchProfile(p.id)
SwitchProfile ==
  \E k \in Range(ObjectKeys(profiles)) :
    /\ "id" \in DOMAIN profiles.at[k]
    /\ handleSwitchProfile(profiles.at[k].id)

\* handleSwitchProfile called with any id, a key of the store or not: the
\* handler as its contract describes it, without the menu in front
SwitchAny ==
  \E id \in Range(ObjectKeys(profiles)) \cup {StaleId} :
    handleSwitchProfile(id)

\* variant: nothing is generated when the last profile goes
DeletedStore_KeepEmpty(prev, id, fresh) ==
  LET newProfiles == DeleteKey(prev, id)
      remainingIds == ObjectKeys(newProfiles)
  IN [profiles |-> newProfiles,
      activeProfileId |-> IF Len(remainingIds) = 0
                          THEN NullId ELSE remainingIds[1],
      generated |-> FALSE]

\* variant: the last remaining id becomes active, not the first
DeletedStore_ActivatesLast(prev, id, fresh) ==
  LET newProfiles == DeleteKey(prev, id)
      remainingIds == ObjectKeys(newProfiles)
  IN IF Len(remainingIds) = 0
     THEN [profiles |-> SingleObj(fresh.id, fresh),
           activeProfileId |-> fresh.id,
           generated |-> TRUE]
     ELSE [profiles |-> newProfiles,
           activeProfileId |-> remainingIds[Len(remainingIds)],
           generated |-> FALSE]

\* the store and the active id a confirmed deletion of profile id leaves;
\* fresh is the profile generateNewProfile() yields, used only when nothing
\* remains
DeletedStore(prev, id, fresh) ==
  LET newProfiles == DeleteKey(prev, id)
      remainingIds == ObjectKeys(newProfiles)
  IN IF Len(remainingIds) = 0
     THEN [profiles |-> SingleObj(fresh.id, fresh),
           activeProfileId |-> fresh.id,
           generated |-> TRUE]
     ELSE [profiles |-> newProfiles,
           activeProfileId |-> remainingIds[1],
           generated |-> FALSE]

handleDeleteProfile(confirmed) ==
  /\ mounted
  /\ UserOp
  /\ activeProfileId # NullId
  /\ IF confirmed
     THEN LET after == DeletedStore(profiles, activeProfileId,
                                    generateNewProfile(uuidCount + 1, now))
          IN
          /\ profiles' = after.profiles
          /\ activeProfileId' = after.activeProfileId
          /\ uuidCount' = IF after.generated THEN uuidCount + 1 ELSE uuidCount
          /\ now' = IF after.generated THEN now + 1 ELSE now
          /\ last' = Op(IF Len(ObjectKeys(DeleteKey(profiles, activeProfileId))) = 0
                        THEN "deleteLast" ELSE "delete",
                        activeProfileId, NoResult)
     ELSE /\ UNCHANGED <<profiles, activeProfileId, uuidCount, now>>
          /\ last' = Op("deleteCancelled", activeProfileId, NoResult)
  /\ okCalls' = [k \in Range(ObjectKeys(profiles')) |->
                   IF k \in DOMAIN okCalls THEN okCalls[k] ELSE 0]
  /\ histAtStart' = [k \in Range(ObjectKeys(profiles')) |->
                   IF k \in DOMAIN histAtStart THEN histAtStart[k] ELSE 0]
  /\ ls_db' = IF confirmed THEN PersistProfiles(profiles', ls_db) ELSE ls_db
  /\ ls_active' = PersistActiveId(activeProfileId', ls_active)
  /\ UNCHANGED <<ls_legacy, mounted, isAnalyzing, error, inflight, recording,
                 recorder>>
  /\ download' = NoDownload
  /\ UNCHANGED description

DeleteProfile == \E confirmed \in BOOLEAN : handleDeleteProfile(confirmed)

\* the values a user types into the name and date-of-birth inputs
FirstNameInputs == {"", "Sam"}
LastNameInputs == {"", "Lee"}
DateOfBirthInputs == {"", "1990-01-01"}

ProfileEdits ==
  {[firstName |-> v] : v \in FirstNameInputs}
    \cup {[lastName |-> v] : v \in LastNameInputs}
    \cup {[dateOfBirth |-> v] : v \in DateOfBirthInputs}

\* { ...prev[activeProfileId], ...updates, lastUpdated: Date.now() }
UpdatedProfile(prev, id, updates, t) ==
  Spread(Spread(IF HasKey(prev, id) THEN prev.at[id] ELSE <<>>, updates),
         [lastUpdated |-> t])

handleUpdateProfile(updates) ==
  /\ mounted
  /\ UserOp
  /\ activeProfileId # NullId
  /\ \A f \in DOMAIN updates :
       f \in DOMAIN activeProfile => activeProfile[f] # updates[f]
  /\ profiles' = PutKey(profiles, activeProfileId,
                        UpdatedProfile(profiles, activeProfileId, updates, now))
  /\ now' = now + 1
  /\ okCalls' = [k \in Range(ObjectKeys(profiles')) |->
                   IF k \in DOMAIN okCalls THEN okCalls[k] ELSE 0]
  /\ histAtStart' = [k \in Range(ObjectKeys(profiles')) |->
                   IF k \in DOMAIN histAtStart THEN histAtStart[k] ELSE 0]
  /\ ls_db' = PersistProfiles(profiles', ls_db)
  /\ last' = Op("edit", NullId, NoResult)
  /\ UNCHANGED <<ls_active, ls_legacy, mounted, activeProfileId, isAnalyzing,
                 error, inflight, recording, recorder, uuidCount>>
  /\ download' = NoDownload
  /\ UNCHANGED description

UpdateProfile == \E updates \in ProfileEdits : handleUpdateProfile(updates)

\* ------------------------------------------------------- analysis results
\* the structured deltas the analysis service can return (AnalysisResponse);
\* an optional property that is not supplied is absent from the record
Results ==
  << [bigFive |-> [openness |-> 80, conscientiousness |-> 65, extraversion |-> 20,
                   agreeableness |-> 40, neuroticism |-> 55],
      mbti |-> "INTJ",
      enneagram |-> "5w4",
      attachmentStyle |-> "Avoidant",
      summary |-> "Analytical and private.",
      keyTraits |-> <<"analytical", "private">>,
      newObservations |-> "Keeps answers short.",
      bodyLanguageAnalysis |-> "Avoids eye contact."],
     [candidateProfile |-> [firstName |-> "Jordan", dateOfBirth |-> "2000-02-02"],
      bigFive |-> [openness |-> 35, conscientiousness |-> 50, extraversion |-> 90,
                   agreeableness |-> 75, neuroticism |-> 30],
      mbti |-> "ESFP",
      enneagram |-> "7w6",
      attachmentStyle |-> "Secure",
      summary |-> "Warm and talkative.",
      keyTraits |-> <<"talkative">>,
      newObservations |-> "Laughs often.",
      toneAnalysis |-> "Fast, rising pitch."],
     [candidateProfile |-> [firstName |-> "", lastName |-> "Doe", dateOfBirth |-> ""],
      bigFive |-> [openness |-> 50, conscientiousness |-> 85, extraversion |-> 45,
                   agreeableness |-> 60, neuroticism |-> 70],
      mbti |-> "ISFJ",
      enneagram |-> "6w5",
      attachmentStyle |-> "Anxious",
      summary |-> "Dutiful, worries about others.",
      keyTraits |-> <<>>,
      newObservations |-> "Signs the letter with a surname.",
      bodyLanguageAnalysis |-> ""] >>

ResultIds == 1..Len(Results)

\* ----------------------------------------------------------- merge engine
FilesUploadedLabel(n) == ToString(n) \o " files uploaded"

\* variant: the entry is always labelled with the first file's name
newHistoryItem_FirstFile(uuid, t, type, result, files) ==
  [id |-> uuid,
   timestamp |-> t,
   type |-> type,
   summary |-> result.newObservations,
   fileName |-> files[1].name]

newHistoryItem(uuid, t, type, result, files) ==
  [id |-> uuid,
   timestamp |-> t,
   type |-> type,
   summary |-> result.newObservations,
   fileName |-> IF Len(files) > 1 THEN FilesUploadedLabel(Len(files))
                ELSE files[1].name]

\* variant: the new body-language note replaces the notes instead of joining
\* them
newBodyLanguage_Replace(current, result) ==
  IF Truthy(result, "bodyLanguageAnalysis")
  THEN <<result.bodyLanguageAnalysis>>
  ELSE current.bodyLanguageNotes

newBodyLanguage(current, result) ==
  IF Truthy(result, "bodyLanguageAnalysis")
  THEN Append(current.bodyLanguageNotes, result.bodyLanguageAnalysis)
  ELSE current.bodyLanguageNotes

newToneNotes(current, result) ==
  IF Truthy(result, "toneAnalysis")
  THEN Append(current.toneVoiceNotes, result.toneAnalysis)
  ELSE current.toneVoiceNotes

\* variant: a candidate first name is taken whatever the current one is
newFirstName_Unguarded(current, result) ==
  IF /\ "candidateProfile" \in DOMAIN result
     /\ Truthy(result.candidateProfile, "firstName")
  THEN result.candidateProfile.firstName
  ELSE current.firstName

newFirstName(current, result) ==
  IF /\ "candidateProfile" \in DOMAIN result
     /\ Truthy(result.candidateProfile, "firstName")
     /\ \/ ~Truthy(current, "firstName")
        \/ current.firstName = "New"
        \/ current.firstName = "Subject"
  THEN result.candidateProfile.firstName
  ELSE current.firstName

\* variant: the migration default "001" is not treated as a placeholder
newLastName_NoLegacySentinel(current, result) ==
  IF /\ "candidateProfile" \in DOMAIN result
     /\ Truthy(result.candidateProfile, "lastName")
     /\ \/ ~Truthy(current, "lastName")
        \/ current.lastName = "Subject"
  THEN result.candidateProfile.lastName
  ELSE current.lastName

newLastName(current, result) ==
  IF /\ "candidateProfile" \in DOMAIN result
     /\ Truthy(result.candidateProfile, "lastName")
     /\ \/ ~Truthy(current, "lastName")
        \/ current.lastName = "Subject"
        \/ current.lastName = "001"
  THEN result.candidateProfile.lastName
  ELSE current.lastName

\* variant: a candidate date of birth is taken whatever the current one is
newDOB_Overwrite(current, result) ==
  IF /\ "candidateProfile" \in DOMAIN result
     /\ Truthy(result.candidateProfile, "dateOfBirth")
  THEN result.candidateProfile.dateOfBirth
  ELSE current.dateOfBirth

newDOB(current, result) ==
  IF /\ "candidateProfile" \in DOMAIN result
     /\ Truthy(result.candidateProfile, "dateOfBirth")
     /\ ~Truthy(current, "dateOfBirth")
  THEN result.candidateProfile.dateOfBirth
  ELSE current.dateOfBirth

\* variant: history keeps only the latest entry
updatedProfile_LatestOnly(current, result, uuid, t, type, files) ==
  Spread(current,
         [firstName |-> newFirstName(current, result),
          lastName |-> newLastName(current, result),
          dateOfBirth |-> newDOB(current, result),
          lastUpdated |-> t,
          bigFive |-> result.bigFive,
          mbti |-> result.mbti,
          enneagram |-> result.enneagram,
          attachmentStyle |-> result.attachmentStyle,
          summary |-> result.summary,
          keyTraits |-> result.keyTraits,
          bodyLanguageNotes |-> newBodyLanguage(current, result),
          toneVoiceNotes |-> newToneNotes(current, result),
          history |-> <<newHistoryItem(uuid, t, type, result, files)>>])

\* variant: the summary and the key traits are filled once, like the
\* biographical fields, and kept afterwards
updatedProfile_KeepsSummary(current, result, uuid, t, type, files) ==
  Spread(current,
         [firstName |-> newFirstName(current, result),
          lastName |-> newLastName(current, result),
          dateOfBirth |-> newDOB(current, result),
          lastUpdated |-> t,
          bigFive |-> result.bigFive,
          mbti |-> result.mbti,
          enneagram |-> result.enneagram,
          attachmentStyle |-> result.attachmentStyle,
          summary |-> IF current.history = <<>>
                      THEN result.summary ELSE current.summary,
          keyTraits |-> IF current.history = <<>>
                        THEN result.keyTraits ELSE current.keyTraits,
          bodyLanguageNotes |-> newBodyLanguage(current, result),
          toneVoiceNotes |-> newToneNotes(current, result),
          history |-> Append(current.history,
                             newHistoryItem(uuid, t, type, result, files))])

updatedProfile(current, result, uuid, t, type, files) ==
  Spread(current,
         [firstName |-> newFirstName(current, result),
          lastName |-> newLastName(current, result),
          dateOfBirth |-> newDOB(current, result),
          lastUpdated |-> t,
          bigFive |-> result.bigFive,
          mbti |-> result.mbti,
          enneagram |-> result.enneagram,
          attachmentStyle |-> result.attachmentStyle,
          summary |-> result.summary,
          keyTraits |-> result.keyTraits,
          bodyLanguageNotes |-> newBodyLanguage(current, result),
          toneVoiceNotes |-> newToneNotes(current, result),
          history |-> Append(current.history,
                             newHistoryItem(uuid, t, type, result, files))])

\* variant: a missing target is created from the delta instead of skipped
MergeInto_Create(prev, target, result, uuid, t, type, files) ==
  PutKey(prev, target,
         updatedProfile(IF HasKey(prev, target)
                        THEN prev.at[target]
                        ELSE generateNewProfile(target, t),
                        result, uuid, t, type, files))

\* variant: the merged profile is stored with the id generated for the
\* history entry
MergeInto_NewId(prev, target, result, uuid, t, type, files) ==
  IF ~HasKey(prev, target)
  THEN prev
  ELSE PutKey(prev, target,
              Spread(updatedProfile(prev.at[target], result, uuid, t, type,
                                    files),
                     [id |-> uuid]))

\* the updater passed to setProfiles: prev => ...
MergeInto(prev, target, result, uuid, t, type, files) ==
  IF ~HasKey(prev, target)
  THEN prev
  ELSE PutKey(prev, target,
              updatedProfile(prev.at[target], result, uuid, t, type, files))

\* -------------------------------------------------------- evidence intake
File(name, type) == [name |-> name, type |-> type]

\* the file selections a user makes in the upload tab
Uploads ==
  { <<File("chat.png", "image/png")>>,
    <<File("letter.pdf", "application/pdf"), File("chat.png", "image/png")>> }

\* firstType.includes(sub)
Includes(s, sub) ==
  \E i \in 1..(Len(s) - Len(sub) + 1) : SubSeq(s, i, i + Len(sub) - 1) = sub

\* "dominant type" of a selection, decided by the first file
DominantType(firstType) ==
  IF Includes(firstType, "image") THEN "IMAGE"
  ELSE IF Includes(firstType, "pdf") THEN "PDF"
  ELSE IF Includes(firstType, "audio") THEN "AUDIO"
  ELSE IF Includes(firstType, "video") THEN "VIDEO"
  ELSE IF Includes(firstType, "html") \/ Includes(firstType, "text") THEN "HTML"
  ELSE "TEXT_FILE"

RecordedFile(kind) ==
  IF kind = "screen" THEN File("screen-capture.webm", "video/webm")
  ELSE File("voice-note.webm", "audio/webm")

RecordedType(kind) == IF kind = "screen" THEN "VIDEO" ELSE "AUDIO"

RemoveAt(s, i) == SubSeq(s, 1, i - 1) \o SubSeq(s, i + 1, Len(s))

\* the texts a user types into the context box
Descriptions == {"I am the blue bubble."}

\* onChange of the context box
setDescription(text) ==
  /\ mounted
  /\ UserOp
  /\ text # description
  /\ description' = text
  /\ last' = Op("describe", NullId, NoResult)
  /\ download' = NoDownload
  /\ UNCHANGED <<ls_db, ls_active, ls_legacy, mounted, profiles,
                 activeProfileId, isAnalyzing, error, inflight, recording,
                 recorder, uuidCount, now, okCalls, histAtStart>>

SetDescription == \E text \in Descriptions \cup {""} : setDescription(text)

\* history length of the stored profile id, 0 when there is none
HistoryLength(o, id) ==
  IF HasKey(o, id) /\ "history" \in DOMAIN o.at[id]
  THEN Len(o.at[id].history)
  ELSE 0

\* handleAnalysis up to its first await.  id and context are the
\* activeProfileId and the activeProfile of the render whose handleAnalysis
\* is called, text the description it is called with.  activeAtCall and
\* historyAtCall are no program state: they record the active id of the
\* application and the history length of the target at this moment.
handleAnalysisStart(files, type, text, id, context) ==
  /\ Len(files) # 0
  /\ isAnalyzing' = TRUE
  /\ error' = NullError
  /\ inflight' = Append(inflight,
                        [activeProfileId |-> id, activeProfile |-> context,
                         description |-> text, files |-> files, type |-> type,
                         activeAtCall |-> activeProfileId,
                         historyAtCall |-> HistoryLength(profiles, id)])

\* the file input is rendered only while isAnalyzing is false
handleFileChange(files) ==
  /\ mounted
  /\ UserOp
  /\ ~isAnalyzing
  /\ Len(files) > 0
  /\ handleAnalysisStart(files, DominantType(files[1].type), description,
                         activeProfileId, activeProfile)
  /\ description' = ""
  /\ last' = Op("upload", NullId, NoResult)
  /\ UNCHANGED <<ls_db, ls_active, ls_legacy, mounted, profiles,
                 activeProfileId, recording, recorder, uuidCount, now,
                 okCalls, histAtStart>>
  /\ download' = NoDownload

FileChange == \E files \in Uploads : handleFileChange(files)

\* the start button is rendered while neither analyzing nor recording;
\* recorder.onstop is a closure of the render that started the recording: it
\* keeps that render's description and its onAnalyze, the handleAnalysis of
\* the App render of that moment with its activeProfileId and activeProfile
startRecording(kind) ==
  /\ mounted
  /\ UserOp
  /\ ~isAnalyzing
  /\ ~recording
  /\ recorder' = [state |-> "recording", kind |-> kind,
                  activeProfileId |-> activeProfileId,
                  activeProfile |-> activeProfile,
                  description |-> description]
  /\ recording' = TRUE
  /\ last' = Op("startRecording", NullId, NoResult)
  /\ UNCHANGED <<ls_db, ls_active, ls_legacy, mounted, profiles,
                 activeProfileId, isAnalyzing, error, inflight,
                 uuidCount, now, okCalls, histAtStart>>
  /\ download' = NoDownload
  /\ UNCHANGED description

StartRecording == \E kind \in {"screen", "audio"} : startRecording(kind)

\* A recorder that has stopped never fires onstop again: its closure is dead.
InactiveRecorder ==
  [state |-> "inactive", kind |-> "none", activeProfileId |-> NullId,
   activeProfile |-> <<>>, description |-> ""]

\* recorder.onstop
recorderOnStop ==
  /\ handleAnalysisStart(<<RecordedFile(recorder.kind)>>,
                         RecordedType(recorder.kind), recorder.description,
                         recorder.activeProfileId, recorder.activeProfile)
  /\ description' = ""
  /\ recorder' = InactiveRecorder

\* the stop button is rendered while recording and not analyzing; stopping
\* an inactive recorder does nothing
stopRecording ==
  /\ mounted
  /\ UserOp
  /\ ~isAnalyzing
  /\ recording
  /\ recorder.state # "none"
  /\ IF recorder.state = "recording"
     THEN recorderOnStop
     ELSE UNCHANGED <<isAnalyzing, error, inflight, recorder, description>>
  /\ recording' = FALSE
  /\ last' = Op("stopRecording", NullId, NoResult)
  /\ UNCHANGED <<ls_db, ls_active, ls_legacy, mounted, profiles,
                 activeProfileId, uuidCount, now, okCalls, histAtStart>>
  /\ download' = NoDownload

\* the captured stream ends on its own (sharing stopped from the browser,
\* device removed): the recorder stops and fires onstop
RecorderEnds ==
  /\ recorder.state = "recording"
  /\ recorderOnStop
  /\ last' = Op("recorderEnds", NullId, NoResult)
  /\ UNCHANGED <<ls_db, ls_active, ls_legacy, mounted, profiles,
                 activeProfileId, opCount, recording, uuidCount, now, okCalls,
                 histAtStart>>
  /\ download' = NoDownload

\* variant: the catch block does not set the error message
AnalysisFails_Silent(i) ==
  /\ i \in 1..Len(inflight)
  /\ isAnalyzing' = FALSE
  /\ inflight' = RemoveAt(inflight, i)
  /\ last' = Op("fail", inflight[i].activeProfileId, NoResult)
  /\ UNCHANGED <<ls_db, ls_active, ls_legacy, mounted, profiles,
                 activeProfileId, error, opCount, recording, recorder,
                 uuidCount, now, okCalls, histAtStart>>
  /\ download' = NoDownload
  /\ UNCHANGED description

\* One of the two awaits of a pending call rejects (a file reader error in
\* Promise.all, or analyzeMedia throws): catch, then finally.  Nothing is read
\* or written between the two awaits, so they are one suspension here.
AnalysisFails(i) ==
  /\ i \in 1..Len(inflight)
  /\ error' = AnalysisFailedMessage
  /\ isAnalyzing' = FALSE
  /\ inflight' = RemoveAt(inflight, i)
  /\ last' = Op("fail", inflight[i].activeProfileId, NoResult)
  /\ UNCHANGED <<ls_db, ls_active, ls_legacy, mounted, profiles,
                 activeProfileId, opCount, recording, recorder, uuidCount,
                 now, okCalls, histAtStart>>
  /\ download' = NoDownload
  /\ UNCHANGED description

\* variant: the delta is merged into the profile as the call was given it,
\* not into the profile the store holds at completion
AnalysisSucceeds_FromSnapshot(i, r) ==
  /\ i \in 1..Len(inflight)
  /\ LET call == inflight[i]
         target == call.activeProfileId
     IN
     IF HasKey(profiles, target)
     THEN /\ profiles' = MergeInto(PutKey(profiles, target, call.activeProfile),
                                   target, Results[r], uuidCount + 1,
                                   now, call.type, call.files)
          /\ uuidCount' = uuidCount + 1
          /\ now' = now + 1
          /\ ls_db' = PersistProfiles(profiles', ls_db)
          /\ okCalls' = [okCalls EXCEPT ![target] = @ + 1]
          /\ last' = [Op("merge", target, r)
                       EXCEPT !.historyAtCall = call.historyAtCall]
     ELSE /\ profiles' = profiles
          /\ UNCHANGED <<uuidCount, now, ls_db, okCalls>>
          /\ last' = Op("mergeSkipped", target, NoResult)
  /\ isAnalyzing' = FALSE
  /\ inflight' = RemoveAt(inflight, i)
  /\ UNCHANGED <<ls_active, ls_legacy, mounted, activeProfileId, error,
                 opCount, recording, recorder, histAtStart>>
  /\ download' = NoDownload
  /\ UNCHANGED description

\* both awaits resolve, analyzeMedia with result r: setProfiles(prev => ...),
\* then finally
AnalysisSucceeds(i, r) ==
  /\ i \in 1..Len(inflight)
  /\ LET call == inflight[i]
         target == call.activeProfileId
     IN
     IF HasKey(profiles, target)
     THEN /\ profiles' = MergeInto(profiles, target, Results[r], uuidCount + 1,
                                   now, call.type, call.files)
          /\ uuidCount' = uuidCount + 1
          /\ now' = now + 1
          /\ ls_db' = PersistProfiles(profiles', ls_db)
          /\ okCalls' = [okCalls EXCEPT ![target] = @ + 1]
          /\ last' = [Op("merge", target, r)
                       EXCEPT !.historyAtCall = call.historyAtCall]
     ELSE /\ profiles' = MergeInto(profiles, target, Results[r], uuidCount + 1,
                                   now, call.type, call.files)
          /\ UNCHANGED <<uuidCount, now, ls_db, okCalls>>
          /\ last' = Op("mergeSkipped", target, NoResult)
  /\ isAnalyzing' = FALSE
  /\ inflight' = RemoveAt(inflight, i)
  /\ UNCHANGED <<ls_active, ls_legacy, mounted, activeProfileId, error,
                 opCount, recording, recorder, histAtStart>>
  /\ download' = NoDownload
  /\ UNCHANGED description

\* ----------------------------------------------------------------- export
\* Reports are kept line by line.  A timestamp counts ticks of the clock;
\* toLocaleString shows it in full, the date-only forms show its day.
TicksPerDay == 2

toLocaleString(t) == "day " \o ToString(t \div TicksPerDay)
                       \o " tick " \o ToString(t % TicksPerDay)

toLocaleDateString(t) == "day " \o ToString(t \div TicksPerDay)

\* toISOString().slice(0, 10)
toISODate(t) == "day-" \o ToString(t \div TicksPerDay)

\* s.replace(/\s+/g, '')
RECURSIVE RemoveWhitespace(_)
RemoveWhitespace(s) ==
  IF Len(s) = 0 THEN ""
  ELSE IF SubSeq(s, 1, 1) = " " THEN RemoveWhitespace(SubSeq(s, 2, Len(s)))
  ELSE SubSeq(s, 1, 1) \o RemoveWhitespace(SubSeq(s, 2, Len(s)))

\* list.join('\n') inside a template: the lines, one empty line if none
JoinLines(list) == IF list = <<>> THEN <<"">> ELSE list

\* list.join(sep)
RECURSIVE Join(_, _)
Join(list, sep) ==
  IF list = <<>> THEN ""
  ELSE IF Len(list) = 1 THEN list[1]
  ELSE list[1] \o sep \o Join(Tail(list), sep)

\* list.slice().reverse()
Reversed(list) == [i \in 1..Len(list) |-> list[Len(list) + 1 - i]]

\* s.slice(0, n)
Slice(s, n) == SubSeq(s, 1, IF Len(s) < n THEN Len(s) ELSE n)

OrUnknown(s) == IF s # "" THEN s ELSE "Unknown"

\* a line of the text report's history
TextHistoryLine(h) ==
  "[" \o toLocaleDateString(h.timestamp) \o "] " \o h.type \o ": "
    \o Slice(h.summary, 100) \o "..."

generateTextReport(p) ==
  << "PSYCHOLOGICAL PROFILE REPORT",
     "============================",
     "SUBJECT: " \o p.firstName \o " " \o p.lastName,
     "DOB: " \o OrUnknown(p.dateOfBirth),
     "LAST UPDATED: " \o toLocaleString(p.lastUpdated),
     "",
     "EXECUTIVE SUMMARY",
     "-----------------",
     p.summary,
     "",
     "PERSONALITY ARCHETYPE",
     "---------------------",
     "MBTI: " \o p.mbti,
     "Enneagram: " \o p.enneagram,
     "Attachment Style: " \o p.attachmentStyle,
     "",
     "BIG FIVE METRICS (0-100)",
     "------------------------",
     "Openness: " \o ToString(p.bigFive.openness),
     "Conscientiousness: " \o ToString(p.bigFive.conscientiousness),
     "Extraversion: " \o ToString(p.bigFive.extraversion),
     "Agreeableness: " \o ToString(p.bigFive.agreeableness),
     "Neuroticism: " \o ToString(p.bigFive.neuroticism),
     "",
     "KEY OBSERVED TRAITS",
     "-------------------" >>
  \o JoinLines([i \in 1..Len(p.keyTraits) |-> "- " \o p.keyTraits[i]])
  \o << "",
        "DETAILED ANALYSIS",
        "-----------------",
        "[Body Language & Kinesics]" >>
  \o (IF Len(p.bodyLanguageNotes) # 0
      THEN [i \in 1..Len(p.bodyLanguageNotes) |->
              "- " \o p.bodyLanguageNotes[i]]
      ELSE <<"No specific body language data.">>)
  \o << "", "[Voice & Tone]" >>
  \o (IF Len(p.toneVoiceNotes) # 0
      THEN [i \in 1..Len(p.toneVoiceNotes) |-> "- " \o p.toneVoiceNotes[i]]
      ELSE <<"No specific voice data.">>)
  \o << "", "ANALYSIS HISTORY", "----------------" >>
  \o JoinLines([i \in 1..Len(p.history) |-> TextHistoryLine(Reversed(p.history)[i])])

\* notes.map(n => `<li>${n}</li>`)
ListItems(notes) == [i \in 1..Len(notes) |-> "<li>" \o notes[i] \o "</li>"]

\* an item of the HTML report's evidence log
HTMLHistoryItem(h) ==
  "<li><strong>" \o toLocaleDateString(h.timestamp) \o ":</strong> ("
    \o h.type \o ") " \o h.summary \o "</li>"

\* the style sheet and the fixed markup around the body are left out
generateHTMLReport(p, t) ==
  << "<title>Psychological Profile - " \o p.firstName \o " " \o p.lastName
       \o "</title>",
     "<h1>CONFIDENTIAL PSYCHOLOGICAL PROFILE</h1>",
     "<p><strong>Subject:</strong> " \o p.firstName \o " " \o p.lastName
       \o "</p>",
     "<p><strong>Date of Birth:</strong> " \o OrUnknown(p.dateOfBirth)
       \o "</p>",
     "<p><strong>Report Generated:</strong> " \o toLocaleString(t) \o "</p>",
     "<h2>EXECUTIVE SUMMARY</h2>",
     "<p>" \o p.summary \o "</p>",
     "<h2>PERSONALITY ARCHETYPE</h2>",
     "<strong>MBTI:</strong> " \o p.mbti \o "<br/>",
     "<strong>Enneagram:</strong> " \o p.enneagram \o "<br/>",
     "<strong>Attachment Style:</strong> " \o p.attachmentStyle,
     "<h2>BIG FIVE METRICS</h2>",
     "<span>Openness</span> <strong>" \o ToString(p.bigFive.openness)
       \o "/100</strong>",
     "<span>Conscientiousness</span> <strong>"
       \o ToString(p.bigFive.conscientiousness) \o "/100</strong>",
     "<span>Extraversion</span> <strong>" \o ToString(p.bigFive.extraversion)
       \o "/100</strong>",
     "<span>Agreeableness</span> <strong>"
       \o ToString(p.bigFive.agreeableness) \o "/100</strong>",
     "<span>Neuroticism</span> <strong>" \o ToString(p.bigFive.neuroticism)
       \o "/100</strong>",
     "<h2>OBSERVED TRAITS</h2>",
     "<p>" \o Join([i \in 1..Len(p.keyTraits) |->
                       "<span class=\"tag\">" \o p.keyTraits[i] \o "</span>"],
                   " ") \o "</p>",
     "<h3>Body Language & Kinesics</h3>",
     "<ul>" \o (IF Len(p.bodyLanguageNotes) > 0
                THEN Join(ListItems(p.bodyLanguageNotes), "")
                ELSE "<li>No specific body language data analyzed yet.</li>")
       \o "</ul>",
     "<h3>Tone & Voice</h3>",
     "<ul>" \o (IF Len(p.toneVoiceNotes) > 0
                THEN Join(ListItems(p.toneVoiceNotes), "")
                ELSE "<li>No specific vocal data analyzed yet.</li>")
       \o "</ul>",
     "<h2>EVIDENCE LOG</h2>",
     "<ul>",
     Join([i \in 1..Len(p.history) |-> HTMLHistoryItem(Reversed(p.history)[i])],
          ""),
     "</ul>" >>

ExportFormats == {"json", "txt", "doc"}

\* the content handleExport builds for profile p at time t
ExportContent(format, p, t) ==
  CASE format = "json" -> JSONstringifyProfile(p)
    [] format = "txt" -> generateTextReport(p)
    [] format = "doc" -> generateHTMLReport(p, t)

ExportMimeType(format) ==
  CASE format = "json" -> "application/json"
    [] format = "txt" -> "text/plain"
    [] format = "doc" -> "application/msword"

handleExport(format) ==
  /\ mounted
  /\ UserOp
  /\ download' =
       [name |-> "PsychProfile_" \o RemoveWhitespace(activeProfile.firstName)
                   \o "_" \o RemoveWhitespace(activeProfile.lastName)
                   \o "_" \o toISODate(now) \o "." \o format,
        type |-> ExportMimeType(format),
        content |-> ExportContent(format, activeProfile, now)]
  /\ last' = Op("export", activeProfileId, NoResult)
  /\ UNCHANGED <<ls_db, ls_active, ls_legacy, mounted, profiles,
                 activeProfileId, isAnalyzing, error, inflight, recording,
                 recorder, uuidCount, now, okCalls, histAtStart, description>>

Export == \E format \in ExportFormats : handleExport(format)

\* ------------------------------------------------------------------- spec
Next ==
  \/ loadData
  \/ handleCreateProfile
  \/ SwitchProfile
  \/ DeleteProfile
  \/ UpdateProfile
  \/ Export
  \/ FileChange
  \/ StartRecording
  \/ stopRecording
  \/ RecorderEnds
  \/ \E i \in 1..Len(inflight) : AnalysisFails(i)
  \/ \E i \in 1..Len(inflight), r \in ResultIds : AnalysisSucceeds(i, r)

Spec == Init /\ [][Next]_vars

\* The same application with a user who also types into the context box.
NextConsole ==
  \/ Next
  \/ SetDescription

SpecConsole == Init /\ [][NextConsole]_vars

\* The store and the session controller driven through their handlers
\* directly, handleSwitchProfile with ids that are no keys included.  An
\* edit under such an id stores an entry that has only the edited field; a
\* merge needs the entry's history list, so a call for such an entry is left
\* pending here.
MergesWholeProfile(i) ==
  LET target == inflight[i].activeProfileId IN
  HasKey(profiles, target) => "history" \in DOMAIN profiles.at[target]

NextStore ==
  \/ loadData
  \/ handleCreateProfile
  \/ SwitchAny
  \/ DeleteProfile
  \/ UpdateProfile
  \/ FileChange
  \/ \E i \in 1..Len(inflight) : AnalysisFails(i)
  \/ \E i \in 1..Len(inflight), r \in ResultIds :
       MergesWholeProfile(i) /\ AnalysisSucceeds(i, r)

SpecStore == Init /\ [][NextStore]_vars

\* The operations that change the store, the active id or what is persisted
\* of them, as the user interface calls them: load, create, switch, delete,
\* edit, and the analysis of uploaded files.
NextSession ==
  \/ loadData
  \/ handleCreateProfile
  \/ SwitchProfile
  \/ DeleteProfile
  \/ UpdateProfile
  \/ FileChange
  \/ \E i \in 1..Len(inflight) : AnalysisFails(i)
  \/ \E i \in 1..Len(inflight), r \in ResultIds : AnalysisSucceeds(i, r)

SpecSession == Init /\ [][NextSession]_vars


\* ----------------------------------------------------------------- claims
\* a is an initial segment of b
IsPrefix(a, b) == Len(a) <= Len(b) /\ SubSeq(b, 1, Len(a)) = a

\* the profiles that are in the store before and after a step
Surviving == Range(ObjectKeys(profiles)) \cap Range(ObjectKeys(profiles'))

\* the delta of the merge that was the last step
LastResult == Results[last.res]

\* the delta carries a non-empty candidate for biographical field f
CandidateGiven(result, f) ==
  /\ "candidateProfile" \in DOMAIN result
  /\ Truthy(result.candidateProfile, f)

\* C1: over any single step, for every profile in the store before and after
\* it, history, bodyLanguageNotes and toneVoiceNotes keep the list they held
\* before the step as a prefix: elements are appended, never removed,
\* reordered or changed
C1_AppendOnly ==
  [][\A k \in Surviving :
       /\ IsPrefix(profiles.at[k].history, profiles'.at[k].history)
       /\ IsPrefix(profiles.at[k].bodyLanguageNotes,
                   profiles'.at[k].bodyLanguageNotes)
       /\ IsPrefix(profiles.at[k].toneVoiceNotes,
                   profiles'.at[k].toneVoiceNotes)]_vars

\* a merge has just appended a body-language note to a list that already
\* held one, and a history entry
C1_Witness ==
  /\ last.op = "merge"
  /\ HasKey(profiles, last.id)
  /\ Len(profiles.at[last.id].bodyLanguageNotes) >= 2
  /\ Len(profiles.at[last.id].history) >= 1

\* C2 as stated: a merge changes firstName only when the delta's candidate is
\* non-empty and the value before the merge is empty or "New"
C2_FirstNameOnlyNew ==
  [][last'.op = "merge" =>
       LET pre == profiles.at[last'.id].firstName
           post == profiles'.at[last'.id].firstName
       IN post # pre =>
            /\ CandidateGiven(Results[last'.res], "firstName")
            /\ pre \in {"", "New"}]_vars

\* C2 amended: a merge sets firstName to the delta's candidate exactly when
\* the candidate is non-empty and the value before the merge is empty, "New"
\* or "Subject"; in every other case the merge leaves firstName unchanged
C2_FirstNameGuard ==
  [][last'.op = "merge" =>
       LET pre == profiles.at[last'.id].firstName
           post == profiles'.at[last'.id].firstName
           result == Results[last'.res]
       IN post = IF /\ CandidateGiven(result, "firstName")
                    /\ pre \in {"", "New", "Subject"}
                 THEN result.candidateProfile.firstName
                 ELSE pre]_vars

\* a merge whose delta carried a first name has just left a user-set or
\* stored first name in place
C2_Witness ==
  /\ last.op = "merge"
  /\ HasKey(profiles, last.id)
  /\ CandidateGiven(LastResult, "firstName")
  /\ profiles.at[last.id].firstName
       \notin {"", "New", "Subject", LastResult.candidateProfile.firstName}

\* C3: a merge sets lastName to the delta's candidate exactly when the
\* candidate is non-empty and the value before the merge is empty, "Subject"
\* or "001"; otherwise the merge leaves lastName unchanged
C3_LastNameGuard ==
  [][last'.op = "merge" =>
       LET pre == profiles.at[last'.id].lastName
           post == profiles'.at[last'.id].lastName
           result == Results[last'.res]
       IN post = IF /\ CandidateGiven(result, "lastName")
                    /\ pre \in {"", "Subject", "001"}
                 THEN result.candidateProfile.lastName
                 ELSE pre]_vars

\* a merge whose delta carried a last name has just left a stored or typed
\* last name in place
C3_Witness ==
  /\ last.op = "merge"
  /\ HasKey(profiles, last.id)
  /\ CandidateGiven(LastResult, "lastName")
  /\ profiles.at[last.id].lastName
       \notin {"", "Subject", "001", LastResult.candidateProfile.lastName}

\* C4: a merge changes dateOfBirth only when the value before the merge is
\* empty and the delta's candidate is non-empty, and then to that candidate;
\* a non-empty dateOfBirth survives every merge
C4_DateOfBirthFillOnce ==
  [][last'.op = "merge" =>
       LET pre == profiles.at[last'.id].dateOfBirth
           post == profiles'.at[last'.id].dateOfBirth
           result == Results[last'.res]
       IN /\ pre # "" => post = pre
          /\ post # pre =>
               /\ pre = ""
               /\ CandidateGiven(result, "dateOfBirth")
               /\ post = result.candidateProfile.dateOfBirth]_vars

\* a merge whose delta carried a date of birth has just left another,
\* non-empty date of birth in place
C4_Witness ==
  /\ last.op = "merge"
  /\ HasKey(profiles, last.id)
  /\ CandidateGiven(LastResult, "dateOfBirth")
  /\ profiles.at[last.id].dateOfBirth
       \notin {"", LastResult.candidateProfile.dateOfBirth}

\* C5: a confirmed deletion of the only profile in the store leaves a store
\* of exactly one profile, a default one ("New" "Subject", no history, no
\* notes) under an identifier the store did not hold, and makes it active
C5_DeleteLastStartsFresh ==
  [][(last'.op \in {"delete", "deleteLast"} /\ Len(ObjectKeys(profiles)) = 1) =>
       /\ Len(ObjectKeys(profiles')) = 1
       /\ LET k == ObjectKeys(profiles')[1]
              p == profiles'.at[k]
          IN /\ ~HasKey(profiles, k)
             /\ p.id = k
             /\ p.firstName = "New"
             /\ p.lastName = "Subject"
             /\ p.history = <<>>
             /\ p.bodyLanguageNotes = <<>>
             /\ p.toneVoiceNotes = <<>>
             /\ activeProfileId' = k]_vars

\* the only profile has just been deleted and another one is active
C5_Witness ==
  /\ last.op = "deleteLast"
  /\ Len(ObjectKeys(profiles)) = 1
  /\ activeProfileId = ObjectKeys(profiles)[1]
  /\ activeProfileId # last.id

\* C6: once the load has completed, the active identifier is not null and
\* is a key of the profile map, whatever persisted state that parses as a
\* JSON object the load started from (an empty map, a missing or a stale
\* active identifier included)
C6_ActiveIdValidAfterLoad ==
  mounted => (activeProfileId # NullId /\ HasKey(profiles, activeProfileId))

\* C7: a successful analysis whose target profile is not in the store when
\* its merge is applied leaves the profile map and what is persisted of it
\* unchanged: nothing is created, nothing is modified
C7_MergeSkipsMissingTarget ==
  [][(last'.op \in {"merge", "mergeSkipped"} /\ ~HasKey(profiles, last'.id)) =>
       /\ profiles' = profiles
       /\ ls_db' = ls_db]_vars

\* an analysis has just succeeded for a profile that was deleted while the
\* call was in flight
C7_Witness ==
  /\ last.op = "mergeSkipped"
  /\ last.id # NullId
  /\ ~HasKey(profiles, last.id)
  /\ Len(ObjectKeys(profiles)) >= 1

\* a step that starts an analysis call
StartsCall == last'.op \in {"upload", "stopRecording", "recorderEnds"}

\* C8: an analysis attempt that fails changes neither the profile map nor
\* the active identifier, at its start and at its failure alike; the failure
\* sets the error message and ends the call without issuing another one
C8_FailureLeavesStore ==
  [][/\ (StartsCall \/ last'.op = "fail") =>
          /\ profiles' = profiles
          /\ activeProfileId' = activeProfileId
          /\ ls_db' = ls_db
          /\ ls_active' = ls_active
     /\ last'.op = "fail" =>
          /\ error' = AnalysisFailedMessage
          /\ Len(inflight') = Len(inflight) - 1
          /\ ~isAnalyzing']_vars

\* an analysis of the active profile has just failed
C8_Witness ==
  /\ last.op = "fail"
  /\ last.id = activeProfileId
  /\ HasKey(profiles, last.id)
  /\ error = AnalysisFailedMessage
  /\ inflight = <<>>

\* C9: for every profile of the store, the length of history is the length
\* it had when the profile was loaded or created plus the number of analysis
\* calls that have succeeded for it since
C9_HistoryCountsSuccesses ==
  mounted =>
    \A k \in Range(ObjectKeys(profiles)) :
      Len(profiles.at[k].history) = histAtStart[k] + okCalls[k]

\* two analyses have succeeded for one profile
C9_Witness ==
  \E k \in Range(ObjectKeys(profiles)) :
    /\ okCalls[k] = 2
    /\ Len(profiles.at[k].history) = histAtStart[k] + 2

\* C10: right after a merge, bigFive, mbti, enneagram, attachmentStyle,
\* summary and keyTraits of the target profile are exactly those of the
\* delta, whatever they were before
C10_DeltaReplacesScores ==
  last.op = "merge" =>
    LET p == profiles.at[last.id] IN
    /\ p.bigFive = LastResult.bigFive
    /\ p.mbti = LastResult.mbti
    /\ p.enneagram = LastResult.enneagram
    /\ p.attachmentStyle = LastResult.attachmentStyle
    /\ p.summary = LastResult.summary
    /\ p.keyTraits = LastResult.keyTraits

\* a second merge has just replaced the scores a first merge had written
C10_Witness ==
  /\ last.op = "merge"
  /\ okCalls[last.id] = 2
  /\ profiles.at[last.id].summary = LastResult.summary
  /\ \E h \in Range(profiles.at[last.id].history) :
       h.summary # LastResult.newObservations

\* the initialization effect runs in this step
Loads == ~mounted /\ mounted'

\* the text before and the text after the first space of s
BeforeSpace(s) == SubSeq(s, 1, IndexOfSpace(s, 1) - 1)

AfterSpace(s) == SubSeq(s, IndexOfSpace(s, 1) + 1, Len(s))

\* the load finds no current-format record and a legacy record that parses,
\* has a name containing a space and no firstName or lastName
LoadsSpacedLegacyName ==
  /\ Loads
  /\ ls_db = NoItem
  /\ ls_legacy # NoItem
  /\ ~JSONparseThrows(TextOf(ls_legacy[1]))
  /\ LET legacy == JSONparseValue(TextOf(ls_legacy[1])) IN
     /\ "name" \in DOMAIN legacy
     /\ IndexOfSpace(legacy.name, 1) > 0
     /\ {"firstName", "lastName"} \cap DOMAIN legacy = {}

\* what the claim says of the store after such a load
MigratedBySplitting ==
  LET legacy == JSONparseValue(TextOf(ls_legacy[1]))
      defaults == generateNewProfile(NullId, now)
  IN
  /\ Len(ObjectKeys(profiles')) = 1
  /\ LET k == ObjectKeys(profiles')[1]
         p == profiles'.at[k]
     IN /\ p.firstName = BeforeSpace(legacy.name)
        /\ p.lastName = AfterSpace(legacy.name)
        /\ p.id = k
        /\ "id" \in DOMAIN legacy => k # legacy.id
        /\ \A f \in DOMAIN legacy \ {"id", "firstName", "lastName"} :
             p[f] = legacy[f]
        /\ \A f \in DOMAIN defaults \ (DOMAIN legacy \cup {"id"}) :
             f \notin {"firstName", "lastName"} => p[f] = defaults[f]
        /\ activeProfileId' = k
  /\ ls_legacy' = NoItem
  /\ ls_db' = Item(MapText(profiles'))

C12_CorruptMapStartsFresh ==
  [][(Loads /\ ls_db # NoItem /\ JSONparseThrows(TextOf(ls_db[1]))) =>
       /\ Len(ObjectKeys(profiles')) = 1
       /\ LET k == ObjectKeys(profiles')[1] IN
          /\ profiles'.at[k] = generateNewProfile(k, now)
          /\ k \notin {ls_active, StaleId}
          /\ activeProfileId' = k
       /\ ls_legacy' = ls_legacy]_vars

\* a load has just replaced a corrupt profile map while a legacy record
\* and a persisted active id were present
C12_Witness ==
  /\ last.op = "load"
  /\ ls_legacy # NoItem
  /\ Len(ObjectKeys(profiles)) = 1
  /\ profiles.at[activeProfileId].firstName = "New"
  /\ ls_db = Item(MapText(profiles))

\* the call that completes in this step
Completing(call) ==
  \E i \in 1..Len(inflight) :
    /\ inflight[i] = call
    /\ inflight' = RemoveAt(inflight, i)

\* C13: the history entry a successful merge appends is labelled "N files
\* uploaded" for a batch of N > 1 files and with the file's name for a single
\* file; its type is the media type submitted with the batch and its summary
\* the delta's newObservations
C13_HistoryEntryLabel ==
  [][last'.op = "merge" =>
       LET history == profiles'.at[last'.id].history
           entry == history[Len(history)]
       IN
       /\ Len(history) = Len(profiles.at[last'.id].history) + 1
       /\ entry.summary = Results[last'.res].newObservations
       /\ \E call \in Range(inflight) :
            /\ Completing(call)
            /\ call.activeProfileId = last'.id
            /\ entry.type = call.type
            /\ entry.fileName =
                 IF Len(call.files) > 1
                 THEN ToString(Len(call.files)) \o " files uploaded"
                 ELSE call.files[1].name]_vars

\* a merge has just logged a batch of two files
C13_Witness ==
  /\ last.op = "merge"
  /\ LET history == profiles.at[last.id].history IN
     /\ history[Len(history)].fileName = "2 files uploaded"
     /\ history[Len(history)].type = "PDF"

C15_OneCallInFlight == Len(inflight) <= 1

\* C16: create adds exactly one profile, with the default field values,
\* under an id that was no key of the store, makes it the active one, and
\* leaves every profile that was in the store as it was
C16_CreateAddsOne ==
  [][last'.op = "create" =>
       /\ Len(ObjectKeys(profiles')) = Len(ObjectKeys(profiles)) + 1
       /\ LET k == ObjectKeys(profiles')[Len(ObjectKeys(profiles'))] IN
          /\ ~HasKey(profiles, k)
          /\ profiles'.at[k] = generateNewProfile(k, now)
          /\ activeProfileId' = k
       /\ \A k \in Range(ObjectKeys(profiles)) :
            /\ HasKey(profiles', k)
            /\ profiles'.at[k] = profiles.at[k]]_vars

\* a profile has just been created next to stored ones
C16_Witness ==
  /\ last.op = "create"
  /\ Len(ObjectKeys(profiles)) >= 2
  /\ profiles.at[activeProfileId].firstName = "New"
  /\ \E k \in Range(ObjectKeys(profiles)) : profiles.at[k].firstName = "Alex"

\* C17: a confirmed deletion of the active profile while another profile
\* exists removes that profile only, leaves the others as they were and in
\* their order, and activates the first remaining id; a deletion that is not
\* confirmed changes neither the map nor the active id
C17_DeleteActivatesFirst ==
  [][/\ (/\ last'.op \in {"delete", "deleteLast"}
         /\ Len(ObjectKeys(profiles)) >= 2) =>
          /\ ObjectKeys(profiles') =
               SelectSeq(ObjectKeys(profiles), LAMBDA k : k # activeProfileId)
          /\ Len(ObjectKeys(profiles')) = Len(ObjectKeys(profiles)) - 1
          /\ \A k \in Range(ObjectKeys(profiles')) :
               profiles'.at[k] = profiles.at[k]
          /\ activeProfileId' = ObjectKeys(profiles')[1]
     /\ last'.op = "deleteCancelled" =>
          /\ profiles' = profiles
          /\ activeProfileId' = activeProfileId]_vars

\* the last of three profiles has just been deleted and the first of the
\* two that remain is active
C17_Witness ==
  /\ last.op = "delete"
  /\ Len(ObjectKeys(profiles)) = 2
  /\ activeProfileId = ObjectKeys(profiles)[1]
  /\ ~HasKey(profiles, last.id)

\* C18: once loaded, every key of the profile map holds a profile whose id
\* is that key, and no step changes the id of a profile that stays in the
\* store
C18_IdsAreKeys ==
  [][mounted' =>
       /\ \A k \in Range(ObjectKeys(profiles')) : profiles'.at[k].id = k
       /\ \A k \in Surviving : profiles'.at[k].id = profiles.at[k].id]_vars

\* a profile that was edited and merged into still carries its key as id,
\* next to another profile
C18_Witness ==
  /\ last.op = "merge"
  /\ Len(ObjectKeys(profiles)) >= 2
  /\ profiles.at[last.id].id = last.id
  /\ profiles.at[last.id].firstName = "Sam"

\* the format of the file downloaded in the last step
DownloadedFormat ==
  CHOOSE format \in ExportFormats : download.type = ExportMimeType(format)

\* the fields the Profile record declares
ProfileFields ==
  {"id", "firstName", "lastName", "dateOfBirth", "lastUpdated", "bigFive",
   "mbti", "enneagram", "attachmentStyle", "summary", "keyTraits",
   "bodyLanguageNotes", "toneVoiceNotes", "history"}

\* C19: the text the JSON export produces parses back to a record equal,
\* field for field, to the in-memory active profile: all fourteen fields,
\* every history entry, the list fields in their order
C19_JSONExportRoundTrip ==
  (last.op = "export" /\ DownloadedFormat = "json") =>
    LET parsed == JSONparseValue(download.content) IN
    /\ ProfileFields \subseteq DOMAIN parsed
    /\ DOMAIN parsed = DOMAIN activeProfile
    /\ \A f \in DOMAIN parsed : parsed[f] = activeProfile[f]

\* a profile with a history entry and notes has just been exported as JSON
C19_Witness ==
  /\ last.op = "export"
  /\ DownloadedFormat = "json"
  /\ HasKey(profiles, activeProfileId)
  /\ Len(activeProfile.history) >= 1
  /\ Len(activeProfile.bodyLanguageNotes) >= 1
  /\ JSONparseValue(download.content) = activeProfile

\* the profiles that differ from p in one field, or in one field of one
\* history entry
AlteredProfiles(p) ==
  { [p EXCEPT !.id = @ + 1],
    [p EXCEPT !.firstName = @ \o "*"],
    [p EXCEPT !.lastName = @ \o "*"],
    [p EXCEPT !.dateOfBirth = @ \o "*"],
    [p EXCEPT !.lastUpdated = @ + 1],
    [p EXCEPT !.bigFive.openness = @ + 1],
    [p EXCEPT !.bigFive.conscientiousness = @ + 1],
    [p EXCEPT !.bigFive.extraversion = @ + 1],
    [p EXCEPT !.bigFive.agreeableness = @ + 1],
    [p EXCEPT !.bigFive.neuroticism = @ + 1],
    [p EXCEPT !.mbti = @ \o "*"],
    [p EXCEPT !.enneagram = @ \o "*"],
    [p EXCEPT !.attachmentStyle = @ \o "*"],
    [p EXCEPT !.summary = @ \o "*"],
    [p EXCEPT !.keyTraits = Append(@, "*")],
    [p EXCEPT !.bodyLanguageNotes = Append(@, "*")],
    [p EXCEPT !.toneVoiceNotes = Append(@, "*")] }
  \cup UNION { { [p EXCEPT !.history[i].id = @ + 1],
                 [p EXCEPT !.history[i].timestamp = @ + TicksPerDay],
                 [p EXCEPT !.history[i].type = @ \o "*"],
                 [p EXCEPT !.history[i].summary = @ \o "*"],
                 [p EXCEPT !.history[i].fileName = @ \o "*"] } :
               i \in 1..Len(p.history) }

\* C20: every field of the Profile record is emitted in each export
\* format: in the JSON, the plain-text and the HTML export alike, a profile
\* that differs from the exported one in any one field, or in any one field
\* of a history entry, would have given a different file
C20_ExportsEmitEveryField ==
  last.op = "export" =>
    \A q \in AlteredProfiles(activeProfile) :
      ExportContent(DownloadedFormat, q, now) # download.content

\* the load finds a profile-map text that parses to a non-empty map
LoadsNonEmptyMap ==
  /\ Loads
  /\ ls_db # NoItem
  /\ ~JSONparseThrows(TextOf(ls_db[1]))
  /\ Len(ObjectKeys(JSONparse(TextOf(ls_db[1])))) > 0

\* C22: a load that finds a persisted profile map parsing to a non-empty map
\* keeps that map, in memory and in persistence; it restores the persisted
\* active id when that id is a key of the map, and otherwise (the id absent
\* or no key of the map) makes the first key of the map the active id
C22_LoadRecoversActiveId ==
  [][LoadsNonEmptyMap =>
       LET persistedMap == JSONparse(TextOf(ls_db[1])) IN
       /\ profiles' = persistedMap
       /\ JSONparse(TextOf(ls_db'[1])) = persistedMap
       /\ IF ls_active # NullId /\ ls_active \in Range(persistedMap.keys)
          THEN activeProfileId' = ls_active
          ELSE activeProfileId' = persistedMap.keys[1]]_vars

\* a load has just found two profiles and an active id that is no key of
\* the map, and has made the first profile the active one
C22_Witness ==
  /\ last.op = "load"
  /\ last.id = StaleId
  /\ ObjectKeys(profiles) = <<1, 2>>
  /\ activeProfileId = 1
  /\ ls_active = 1

\* C23: a load that finds a current-format record leaves the legacy key as
\* it is; a load that finds none, and so reads the legacy key, leaves the
\* legacy key absent, whether or not its content parses
C23_LegacyReadOnce ==
  [][Loads =>
       IF ls_db # NoItem
       THEN ls_legacy' = ls_legacy
       ELSE ls_legacy' = NoItem]_vars

\* the dictionary held by the persisted profile-map text
PersistedMap(item) ==
  IF item # NoItem /\ ~JSONparseThrows(TextOf(item[1]))
  THEN JSONparse(TextOf(item[1]))
  ELSE EmptyObj

\* C21: a switch makes the id it is given the active id, whether or not it
\* is a key of the map, and changes neither the map, nor its persisted text,
\* nor the error; whenever the active id is no key of the map the profile
\* rendered is a fresh default profile that is itself no entry of the map;
\* and an id that is active without being a key becomes a key of the map,
\* in memory or persisted, only by an edit of the profile
C21_SwitchUnvalidated ==
  [][/\ last'.op = "switch" =>
          /\ activeProfileId' = last'.id
          /\ profiles' = profiles
          /\ ls_db' = ls_db
          /\ error' = error
     /\ (mounted' /\ ~HasKey(profiles', activeProfileId')) =>
          /\ activeProfile' = generateNewProfile(activeProfile'.id, now')
          /\ ~HasKey(profiles', activeProfile'.id)
     /\ (mounted /\ activeProfileId # NullId
           /\ ~HasKey(profiles, activeProfileId) /\ last'.op # "edit") =>
          /\ ~HasKey(profiles', activeProfileId)
          /\ ~HasKey(PersistedMap(ls_db'), activeProfileId)]_vars

\* a switch has just made an id active that is no key of the map: a default
\* profile is rendered, no error is shown, and the map, as persisted, still
\* has its entries and none for that id
C21_Witness ==
  /\ last.op = "switch"
  /\ activeProfileId = StaleId
  /\ ls_active = StaleId
  /\ Len(ObjectKeys(profiles)) = 2
  /\ ~HasKey(profiles, StaleId)
  /\ activeProfile.firstName = "New"
  /\ activeProfile.history = <<>>
  /\ error = NullError
  /\ ls_db = Item(MapText(profiles))

\* C24: a successful analysis is merged into the profile whose id was the
\* active id when handleAnalysis was called for it; every other profile and
\* the active id are as before the merge
C24_MergeTargetsActiveAtCall ==
  [][last'.op = "merge" =>
       /\ \E call \in Range(inflight) :
            /\ Completing(call)
            /\ call.activeProfileId = last'.id
            /\ call.activeAtCall = last'.id
       /\ ObjectKeys(profiles') = ObjectKeys(profiles)
       /\ \A k \in Range(ObjectKeys(profiles)) \ {last'.id} :
            profiles'.at[k] = profiles.at[k]
       /\ activeProfileId' = activeProfileId]_vars

\* a recording stops in this step and its analysis call starts
StopsRecording ==
  /\ last'.op \in {"stopRecording", "recorderEnds"}
  /\ Len(inflight') = Len(inflight) + 1

\* C25: the analysis call a stopping recording starts targets the profile
\* that is active at that moment, is given that profile's state of that
\* moment as context, and carries the description text of that moment
C25_RecordingUsesStateAtStop ==
  [][StopsRecording =>
       LET call == inflight'[Len(inflight')] IN
       /\ call.activeProfileId = activeProfileId
       /\ call.activeProfile = activeProfile
       /\ call.description = description]_vars

\* the merge of this step completes a call during whose flight another
\* analysis of the same profile has succeeded
MergesOverlapped ==
  /\ last'.op = "merge"
  /\ Len(profiles.at[last'.id].history) > last'.historyAtCall

\* C26: when two analyses of one profile overlap and both succeed, the merge
\* of the one that completes last keeps the entry and the notes the other
\* has appended and adds its own after them, so the history ends with both
\* entries in the order of completion; the fields a merge replaces hold the
\* values of the delta that completed last
C26_OverlapLosesNothing ==
  [][MergesOverlapped =>
       LET before == profiles.at[last'.id]
           after == profiles'.at[last'.id]
           result == Results[last'.res]
           n == Len(after.history)
       IN
       /\ n = Len(before.history) + 1
       /\ SubSeq(after.history, 1, n - 1) = before.history
       /\ after.history[n].summary = result.newObservations
       /\ after.history[n - 1].timestamp < after.history[n].timestamp
       /\ after.bodyLanguageNotes =
            IF Truthy(result, "bodyLanguageAnalysis")
            THEN Append(before.bodyLanguageNotes, result.bodyLanguageAnalysis)
            ELSE before.bodyLanguageNotes
       /\ after.toneVoiceNotes =
            IF Truthy(result, "toneAnalysis")
            THEN Append(before.toneVoiceNotes, result.toneAnalysis)
            ELSE before.toneVoiceNotes
       /\ after.bigFive = result.bigFive
       /\ after.mbti = result.mbti
       /\ after.enneagram = result.enneagram
       /\ after.attachmentStyle = result.attachmentStyle
       /\ after.summary = result.summary
       /\ after.keyTraits = result.keyTraits]_vars

\* an upload and a recording of one profile were in flight together; the
\* recording, started later, succeeded first and the upload has just
\* succeeded: the history ends with the recording's entry and then the
\* upload's, both notes are there, and the scores are the upload's delta's
C26_Witness ==
  /\ last.op = "merge"
  /\ last.res = 1
  /\ LET p == profiles.at[last.id]
         n == Len(p.history)
     IN
     /\ n >= last.historyAtCall + 2
     /\ p.history[n].fileName = "chat.png"
     /\ p.history[n].summary = Results[1].newObservations
     /\ p.history[n - 1].fileName \in {"screen-capture.webm", "voice-note.webm"}
     /\ p.history[n - 1].summary = Results[2].newObservations
     /\ p.bodyLanguageNotes[Len(p.bodyLanguageNotes)]
          = Results[1].bodyLanguageAnalysis
     /\ p.toneVoiceNotes[Len(p.toneVoiceNotes)] = Results[2].toneAnalysis
     /\ p.summary = Results[1].summary

\* C27: isAnalyzing is true exactly while some analysis call that
\* handleAnalysis has started has not completed yet
C27_BusyIffPending == isAnalyzing <=> (Len(inflight) > 0)

\* what a load run against the keys persisted in this state would set
Reloaded == LoadedStore(ls_db, ls_active, ls_legacy, uuidCount, now)

\* C28: in every state after the initialization, a load run against the
\* persisted keys of that state yields a profile map equal to the in-memory
\* map and an active id equal to the in-memory active id
C28_PersistenceRoundTrip ==
  mounted =>
    LET reloaded == Reloaded IN
    /\ reloaded.profiles = profiles
    /\ reloaded.activeProfileId = activeProfileId

\* a merge has just extended the history of a migrated profile while another
\* profile is the active one: what is persisted reloads to this very store
C28_Witness ==
  /\ last.op = "merge"
  /\ Len(ObjectKeys(profiles)) = 2
  /\ activeProfileId # last.id
  /\ "name" \in DOMAIN profiles.at[last.id]
  /\ Len(profiles.at[last.id].history) = 2
  /\ LET reloaded == Reloaded IN
     /\ reloaded.profiles = profiles
     /\ reloaded.activeProfileId = activeProfileId

====
